---- MODULE Spec2Model ----
(***************************************************************************)
(* Model of src/main.py: a Telegram bot that keeps a per-user session      *)
(* entry (url, formats, timestamp) in the module-level dict user_data,     *)
(* downloads a video on a quality-button press, and sweeps old entries in  *)
(* a background thread.                                                    *)
(*                                                                         *)
(* Strings are sequences of tokens (a token is a separator character or an *)
(* unbreakable word).  Python's None is the empty sequence and a present   *)
(* value x is <<x>>.  A Python dict is the sequence of its items in        *)
(* insertion order.  Time is in seconds.                                   *)
(***************************************************************************)
EXTENDS Integers, Sequences, FiniteSets, TLC

VARIABLES
    user_data,   \* the module-level dict: user id -> {url, formats, timestamp}
    now,         \* time.time()
    disk,        \* the files of the working directory: path -> size in bytes
    pc,          \* position of each chat event handler
    ev,          \* the update each handler is processing
    loc,         \* the locals of each handler
    sent,        \* the messages each handler has sent for its update
    log,         \* what each handler has logged for its update
    outcome,     \* how each handler ended: returned, or the exception that escaped
    running,     \* the handler that holds the event loop between two awaits (0: none)
    spc,         \* position of the cleanup thread
    sw,          \* the locals of cleanup_old_data
    wake,        \* when the cleanup thread's time.sleep ends
    last_put,    \* history: what each user's latest successful submission stored,
                 \* None once the cleanup thread has removed the user's entry
    pass_start   \* history: user_data and the time when the running cleanup pass
                 \* began, None once a put or the clock has moved since

vars == <<user_data, now, disk, pc, ev, loc, sent, log, outcome, running,
          spc, sw, wake, last_put, pass_start>>

---------------------------------------------------------------------------
(* Program constants *)

MAX_TELEGRAM_FILE_SIZE == 2097152000
CACHE_EXPIRY == 3600
SLEEP_SECONDS == 3600
TOP_N == 4

(* Bounds of the model *)

MaxTicks == 2

Users == {1, 2}
Handlers == {1}
TickStep == CACHE_EXPIRY
MaxTime == MaxTicks * TickStep

None == << >>
Some(x) == <<x>>

---------------------------------------------------------------------------
(* Python dict, in insertion order *)

DictHas(d, k) == \E i \in 1..Len(d) : d[i].key = k

DictIndex(d, k) == CHOOSE i \in 1..Len(d) : d[i].key = k

DictGet(d, k) == d[DictIndex(d, k)].val

DictSetKeepOld(d, k, v) ==
    IF DictHas(d, k) THEN d ELSE Append(d, [key |-> k, val |-> v])

DictSet(d, k, v) ==
    IF DictHas(d, k)
    THEN [d EXCEPT ![DictIndex(d, k)].val = v]
    ELSE Append(d, [key |-> k, val |-> v])

DictPop(d, k) == SelectSeq(d, LAMBDA e : e.key # k)

DictKeys(d) == [i \in 1..Len(d) |-> d[i].key]

---------------------------------------------------------------------------
(* Strings *)

DigitChars == <<"0", "1", "2", "3", "4", "5", "6", "7", "8", "9">>

RECURSIVE py_str(_)
py_str(n) ==
    IF n < 10 THEN <<DigitChars[n + 1]>>
    ELSE py_str(n \div 10) \o <<DigitChars[(n % 10) + 1]>>

DigitVal(c) == CHOOSE i \in 0..9 : DigitChars[i + 1] = c

RECURSIVE py_int(_)
py_int(s) ==
    IF Len(s) = 1 THEN DigitVal(s[1])
    ELSE 10 * py_int(SubSeq(s, 1, Len(s) - 1)) + DigitVal(s[Len(s)])

Contains(s, tok) == \E i \in 1..Len(s) : s[i] = tok

StartsWith(s, p) == Len(s) >= Len(p) /\ SubSeq(s, 1, Len(p)) = p

\* s.split(sep): the pieces of s between the occurrences of sep
RECURSIVE Split(_, _)
Split(s, sep) ==
    IF ~Contains(s, sep) THEN <<s>>
    ELSE LET i == CHOOSE j \in 1..Len(s) :
                      s[j] = sep /\ \A k \in 1..(j - 1) : s[k] # sep
         IN  <<SubSeq(s, 1, i - 1)>> \o Split(SubSeq(s, i + 1, Len(s)), sep)

\* s.strip()
RECURSIVE Strip(_)
Strip(s) ==
    IF s = << >> THEN s
    ELSE IF s[1] = " " THEN Strip(Tail(s))
    ELSE IF s[Len(s)] = " " THEN Strip(SubSeq(s, 1, Len(s) - 1))
    ELSE s

---------------------------------------------------------------------------
(* Utility functions *)

is_valid_youtube_url_any(url) == Len(url) >= 0

is_valid_youtube_url(url) ==
    \E domain \in {"youtube.com", "youtu.be"} : Contains(url, domain)

Last(s) == s[Len(s)]

normalize_youtube_url(url) ==
    IF Contains(url, "youtu.be")
    THEN LET video_id == Split(Last(Split(url, "/")), "?")[1]
         IN  <<"https:", "/", "/", "www.", "youtube.com", "/", "watch", "?", "v=">>
                 \o video_id
    ELSE Split(url, "&")[1]

\* f.get("height") and f.get("vcodec") != "none"
UsableFormat(f) == f.height # None /\ f.height[1] # 0 /\ f.vcodec # Some("none")

\* the dict comprehension of get_video_qualities over info.get("formats", [])
RECURSIVE QualitiesOf(_)
QualitiesOf(formats) ==
    IF formats = << >> THEN << >>
    ELSE LET f    == Last(formats)
             rest == QualitiesOf(SubSeq(formats, 1, Len(formats) - 1))
         IN  IF UsableFormat(f)
             THEN DictSet(rest, py_str(f.height[1]), f.format_id)
             ELSE rest

\* the result of get_video_qualities when ydl.extract_info ends as `info` says
get_video_qualities(info) ==
    IF info.raises THEN None ELSE Some(QualitiesOf(info.formats))

NotFormatsNoneOnly(formats) == formats = None

\* `not formats`
NotFormats(formats) == formats = None \/ formats[1] = << >>

\* sorted(xs, reverse=True)
RECURSIVE SortedDesc(_)
SortedDesc(xs) ==
    IF xs = << >> THEN << >>
    ELSE LET i == CHOOSE j \in 1..Len(xs) : \A k \in 1..Len(xs) : xs[j] >= xs[k]
         IN  <<xs[i]>> \o SortedDesc(SubSeq(xs, 1, i - 1) \o SubSeq(xs, i + 1, Len(xs)))

TakeAll(xs, n) == xs

\* xs[:n]
Take(xs, n) == SubSeq(xs, 1, IF Len(xs) < n THEN Len(xs) ELSE n)

\* lines 95-98: the callback data of the quality menu's buttons
QualityKeyboard(formats) ==
    LET keys          == DictKeys(formats)
        available_res == Take(SortedDesc([i \in 1..Len(keys) |-> py_int(keys[i])]), TOP_N)
    IN  [i \in 1..Len(available_res) |-> <<"quality", "_">> \o py_str(available_res[i])]

\* current_time - data.get("timestamp", 0) > CACHE_EXPIRY
IsExpiredAtLeast(current_time, data) == current_time - data.timestamp >= CACHE_EXPIRY

IsExpiredReversed(current_time, data) == data.timestamp - current_time > CACHE_EXPIRY

IsExpired(current_time, data) == current_time - data.timestamp > CACHE_EXPIRY

\* os.path.exists(path)
os_path_exists(d, path) == path \in DOMAIN d

os_remove_if_exists_noop(d, path) == d

\* the finally block: if os.path.exists(file_path): os.remove(file_path)
os_remove_if_exists(d, path) ==
    IF os_path_exists(d, path) THEN [q \in DOMAIN d \ {path} |-> d[q]] ELSE d

\* a file written at path with the given size
WriteFile(d, path, size) ==
    [q \in DOMAIN d \cup {path} |-> IF q = path THEN size ELSE d[q]]

---------------------------------------------------------------------------
(* What the environment can deliver: updates, resolver results *)

EnterLink == <<"enter", "_", "link">>
QualityPrefix == <<"quality", "_">>

ShortLink == <<"https:", "/", "/", "youtu.be", "/", "abc123", "?", "feature=share">>
LongLink  == <<" ", "https:", "/", "/", "www.", "youtube.com", "/", "watch", "?",
               "v=", "xyz", "&", "t=1">>
OtherLink == <<"https:", "/", "/", "example.com", "/", "v">>

Texts == {ShortLink, LongLink, OtherLink}

Payloads == {EnterLink, QualityPrefix \o py_str(720)}

Updates ==
    [kind : {"start"}, chat_id : Users, data : {<< >>}]
        \cup [kind : {"text"}, chat_id : Users, data : Texts]
        \cup [kind : {"callback"}, chat_id : Users, data : Payloads]

Fmt(h, v, id) == [height |-> h, vcodec |-> v, format_id |-> id]

FullFormats ==
    << Fmt(None, Some("none"), "140"), Fmt(Some(144), Some("avc1"), "160"),
       Fmt(Some(360), Some("avc1"), "134"), Fmt(Some(480), Some("avc1"), "135"),
       Fmt(Some(720), Some("avc1"), "136"), Fmt(Some(720), Some("vp9"), "247"),
       Fmt(Some(1080), Some("avc1"), "137"), Fmt(Some(240), Some("none"), "599") >>

SmallFormats == << Fmt(Some(360), None, "18"), Fmt(Some(0), Some("avc1"), "sb0") >>

AudioFormats == << Fmt(None, Some("none"), "140"), Fmt(None, Some("none"), "251") >>

\* how ydl.extract_info(url, download=False) can end: it raises, or returns the
\* video's info, without formats, with audio formats only, or with the formats
\* of the video the url names
Infos(url) ==
    { [raises |-> TRUE, formats |-> << >>],
      [raises |-> FALSE, formats |-> << >>],
      [raises |-> FALSE, formats |-> AudioFormats],
      [raises |-> FALSE,
       formats |-> IF Contains(url, "abc123") THEN FullFormats ELSE SmallFormats] }

\* how ydl.download([url]) can end: it raises or returns, and has left a file of
\* some size at outtmpl or none
Downloads ==
    [raises : BOOLEAN,
     size : {None, Some(MAX_TELEGRAM_FILE_SIZE), Some(MAX_TELEGRAM_FILE_SIZE + 1)}]

Msg(text, detail, buttons) == [text |-> text, detail |-> detail, buttons |-> buttons]

\* the locals of cleanup_old_data while they hold nothing that is read again
NoSweepLocals == [current_time |-> 0, used |-> 0, pos |-> 0, expired_users |-> << >>]

NoLocals ==
    [url |-> << >>, formats |-> None, quality |-> << >>, video_info |-> None,
     file_path |-> None, error |-> << >>]

---------------------------------------------------------------------------
(* The state after main() has started the cleanup thread and the polling loop *)

Init ==
    /\ user_data = << >>
    /\ now = 0
    /\ disk = << >>
    /\ pc = [h \in Handlers |-> "idle"]
    /\ ev = [h \in Handlers |-> [kind |-> "start", chat_id |-> 1, data |-> << >>]]
    /\ loc = [h \in Handlers |-> NoLocals]
    /\ sent = [h \in Handlers |-> << >>]
    /\ log = [h \in Handlers |-> {}]
    /\ outcome = [h \in Handlers |-> "none"]
    /\ running = 0
    /\ spc = "begin"
    /\ sw = NoSweepLocals
    /\ wake = 0
    /\ last_put = [u \in Users |-> None]
    /\ pass_start = None

sweep_vars == <<spc, sw, wake, pass_start>>

\* update.message.chat_id / query.message.chat_id
user_id_const(h) == 1

user_id(h) == ev[h].chat_id

\* the handler h replies and goes on at position p
Reply(h, m, p) ==
    /\ sent' = [sent EXCEPT ![h] = Append(@, m)]
    /\ pc' = [pc EXCEPT ![h] = p]

\* the handler h returns normally; its locals are gone
Return(h) ==
    /\ outcome' = [outcome EXCEPT ![h] = "returned"]
    /\ loc' = [loc EXCEPT ![h] = NoLocals]

\* the exception exc leaves the handler h; its locals are gone
Escape(h, exc) ==
    /\ pc' = [pc EXCEPT ![h] = "done"]
    /\ outcome' = [outcome EXCEPT ![h] = exc]
    /\ loc' = [loc EXCEPT ![h] = NoLocals]

---------------------------------------------------------------------------
(* The application hands an update to its handler *)

Receive(h, e) ==
    /\ pc[h] \in {"idle", "done"}
    /\ running = 0
    /\ ev' = [ev EXCEPT ![h] = e]
    /\ pc' = [pc EXCEPT ![h] = CASE e.kind = "start" -> "start_reply"
                                 [] e.kind = "text" -> "msg_begin"
                                 [] e.kind = "callback" -> "btn_answer"]
    /\ loc' = [loc EXCEPT ![h] = NoLocals]
    /\ sent' = [sent EXCEPT ![h] = << >>]
    /\ log' = [log EXCEPT ![h] = {}]
    /\ outcome' = [outcome EXCEPT ![h] = "none"]
    /\ UNCHANGED <<user_data, now, disk, running, sweep_vars, last_put>>

(* start *)

StartReply(h) ==
    /\ pc[h] = "start_reply"
    /\ running = 0
    /\ Reply(h, Msg("welcome", << >>, <<EnterLink>>), "done")
    /\ Return(h)
    /\ UNCHANGED <<user_data, now, disk, ev, log, running, sweep_vars, last_put>>

(* button_handler *)

\* `user_id in user_data`
InStoreAlways(h) == TRUE

InStore(h) == DictHas(user_data, user_id(h))

\* await query.answer() has returned; lines 56-63 and the else of line 69
BtnAnswer(h) ==
    /\ pc[h] = "btn_answer"
    /\ running = 0
    /\ IF ev[h].data = EnterLink
       THEN /\ pc' = [pc EXCEPT ![h] = "btn_enter_reply"]
            /\ UNCHANGED <<running, outcome, loc>>
       ELSE IF StartsWith(ev[h].data, QualityPrefix)
       THEN IF InStore(h)
            THEN /\ pc' = [pc EXCEPT ![h] = "btn_read"]
                 /\ running' = h
                 /\ UNCHANGED <<outcome, loc>>
            ELSE /\ pc' = [pc EXCEPT ![h] = "btn_expired_reply"]
                 /\ UNCHANGED <<running, outcome, loc>>
       ELSE /\ pc' = [pc EXCEPT ![h] = "done"]
            /\ Return(h)
            /\ UNCHANGED running
    /\ UNCHANGED <<user_data, now, disk, ev, sent, log, sweep_vars, last_put>>

\* line 59
BtnEnterReply(h) ==
    /\ pc[h] = "btn_enter_reply"
    /\ running = 0
    /\ Reply(h, Msg("send_link", << >>, << >>), "done")
    /\ Return(h)
    /\ UNCHANGED <<user_data, now, disk, ev, log, running, sweep_vars, last_put>>

\* line 70
BtnExpiredReply(h) ==
    /\ pc[h] = "btn_expired_reply"
    /\ running = 0
    /\ Reply(h, Msg("session_expired", << >>, << >>), "done")
    /\ Return(h)
    /\ UNCHANGED <<user_data, now, disk, ev, log, running, sweep_vars, last_put>>

PayloadQualityFirst(data) == Split(data, "_")[1]

\* line 64: query.data.split("_")[1]
PayloadQuality(data) == Split(data, "_")[2]

\* lines 64-65: quality = query.data.split("_")[1]; video_info = user_data[user_id]
BtnRead(h) ==
    /\ pc[h] = "btn_read"
    /\ running = h
    /\ running' = 0
    /\ IF DictHas(user_data, user_id(h))
       THEN /\ loc' = [loc EXCEPT ![h].quality = PayloadQuality(ev[h].data),
                                  ![h].video_info = Some(DictGet(user_data, user_id(h)))]
            /\ pc' = [pc EXCEPT ![h] = "btn_notice"]
            /\ UNCHANGED outcome
       ELSE Escape(h, "KeyError")
    /\ UNCHANGED <<user_data, now, disk, ev, sent, log, sweep_vars, last_put>>

\* line 67; line 68 then enters download_video
BtnNotice(h) ==
    /\ pc[h] = "btn_notice"
    /\ running = 0
    /\ Reply(h, Msg("downloading", loc[h].quality, << >>), "dl_run")
    /\ running' = h
    /\ UNCHANGED <<user_data, now, disk, ev, loc, log, outcome, sweep_vars, last_put>>

(* download_video *)

\* an exception raised inside the try of download_video: line 183
DlExcept(h, exc, path) ==
    /\ loc' = [loc EXCEPT ![h].file_path = Some(path), ![h].error = exc]
    /\ log' = [log EXCEPT ![h] = @ \cup {"Download error"}]
    /\ pc' = [pc EXCEPT ![h] = "dl_fail_reply"]

\* lines 137-164: the file name, the resolver's download, the checks on its output
DlRun(h, o) ==
    /\ pc[h] = "dl_run"
    /\ running = h
    /\ running' = 0
    /\ LET file_path == <<user_id(h), now>>
           written   == IF o.size = None THEN disk
                        ELSE WriteFile(disk, file_path, o.size[1])
       IN  /\ disk' = written
           /\ IF o.raises
              THEN DlExcept(h, <<"DownloadError">>, file_path)
              ELSE IF ~os_path_exists(written, file_path)
              THEN DlExcept(h, <<"FileNotFoundError">>, file_path)
              ELSE IF written[file_path] > MAX_TELEGRAM_FILE_SIZE
              THEN DlExcept(h, <<"ValueError">>, file_path)
              ELSE /\ loc' = [loc EXCEPT ![h].file_path = Some(file_path)]
                   /\ pc' = [pc EXCEPT ![h] = "dl_complete_reply"]
                   /\ UNCHANGED log
    /\ UNCHANGED <<user_data, now, ev, sent, outcome, sweep_vars, last_put>>

\* line 166, then open(file_path, "rb") of line 167
DlCompleteReply(h) ==
    /\ pc[h] = "dl_complete_reply"
    /\ running = 0
    /\ sent' = [sent EXCEPT ![h] = Append(@, Msg("download_complete", << >>, << >>))]
    /\ IF os_path_exists(disk, loc[h].file_path[1])
       THEN pc' = [pc EXCEPT ![h] = "dl_upload"] /\ UNCHANGED <<loc, log>>
       ELSE DlExcept(h, <<"FileNotFoundError">>, loc[h].file_path[1])
    /\ UNCHANGED <<user_data, now, disk, ev, outcome, running, sweep_vars, last_put>>

\* lines 168-174
DlUpload(h) ==
    /\ pc[h] = "dl_upload"
    /\ running = 0
    /\ Reply(h, Msg("video", << >>, << >>), "dl_done_reply")
    /\ UNCHANGED <<user_data, now, disk, ev, loc, log, outcome, running, sweep_vars,
                   last_put>>

DlDoneReplyClears(h) ==
    /\ pc[h] = "dl_done_reply"
    /\ running = 0
    /\ Reply(h, Msg("done", << >>, <<EnterLink>>), "done")
    /\ disk' = os_remove_if_exists(disk, loc[h].file_path[1])
    /\ Return(h)
    /\ user_data' = DictPop(user_data, user_id(h))
    /\ UNCHANGED <<now, ev, log, running, sweep_vars, last_put>>

\* lines 176-181, then the finally block
DlDoneReply(h) ==
    /\ pc[h] = "dl_done_reply"
    /\ running = 0
    /\ Reply(h, Msg("done", << >>, <<EnterLink>>), "done")
    /\ disk' = os_remove_if_exists(disk, loc[h].file_path[1])
    /\ Return(h)
    /\ UNCHANGED <<user_data, now, ev, log, running, sweep_vars, last_put>>

\* line 184, then the finally block
DlFailReply(h) ==
    /\ pc[h] = "dl_fail_reply"
    /\ running = 0
    /\ Reply(h, Msg("download_failed", loc[h].error, << >>), "done")
    /\ disk' = os_remove_if_exists(disk, loc[h].file_path[1])
    /\ Return(h)
    /\ UNCHANGED <<user_data, now, ev, log, running, sweep_vars, last_put>>

(* handle_message *)

\* lines 73-82: normalize, validate, discover the formats
MsgBegin(h, info) ==
    /\ pc[h] = "msg_begin"
    /\ running = 0
    /\ LET url == normalize_youtube_url(Strip(ev[h].data))
       IN  IF ~is_valid_youtube_url(url)
           THEN /\ loc' = [loc EXCEPT ![h].url = url]
                /\ pc' = [pc EXCEPT ![h] = "msg_invalid_reply"]
                /\ UNCHANGED <<log, running>>
           ELSE /\ loc' = [loc EXCEPT ![h].url = url,
                                      ![h].formats = get_video_qualities(info)]
                /\ log' = [log EXCEPT ![h] =
                              IF info.raises THEN @ \cup {"Error getting qualities"} ELSE @]
                /\ pc' = [pc EXCEPT ![h] = "msg_store"]
                /\ running' = h
    /\ UNCHANGED <<user_data, now, disk, ev, sent, outcome, sweep_vars, last_put>>

\* lines 88-92
NewEntry(h) == [url |-> loc[h].url, formats |-> loc[h].formats[1], timestamp |-> now]

\* lines 83-92: give up without formats, or store the entry
MsgStore(h) ==
    /\ pc[h] = "msg_store"
    /\ running = h
    /\ running' = 0
    /\ IF NotFormats(loc[h].formats)
       THEN /\ pc' = [pc EXCEPT ![h] = "msg_noformats_reply"]
            /\ UNCHANGED <<user_data, last_put, pass_start>>
       ELSE /\ user_data' = DictSet(user_data, user_id(h), NewEntry(h))
            /\ last_put' = [last_put EXCEPT ![ev[h].chat_id] = Some(NewEntry(h))]
            /\ pass_start' = None
            /\ pc' = [pc EXCEPT ![h] = "msg_menu_reply"]
    /\ UNCHANGED <<now, disk, ev, loc, sent, log, outcome, spc, sw, wake>>

\* line 79
MsgInvalidReply(h) ==
    /\ pc[h] = "msg_invalid_reply"
    /\ running = 0
    /\ Reply(h, Msg("invalid_url", << >>, << >>), "done")
    /\ Return(h)
    /\ UNCHANGED <<user_data, now, disk, ev, log, running, sweep_vars, last_put>>

\* line 84
MsgNoFormatsReply(h) ==
    /\ pc[h] = "msg_noformats_reply"
    /\ running = 0
    /\ Reply(h, Msg("no_formats", << >>, << >>), "done")
    /\ Return(h)
    /\ UNCHANGED <<user_data, now, disk, ev, log, running, sweep_vars, last_put>>

\* lines 95-101
MsgMenuReply(h) ==
    /\ pc[h] = "msg_menu_reply"
    /\ running = 0
    /\ Reply(h, Msg("select_quality", << >>, QualityKeyboard(loc[h].formats[1])), "done")
    /\ Return(h)
    /\ UNCHANGED <<user_data, now, disk, ev, log, running, sweep_vars, last_put>>

\* line 104
MsgErrorReply(h) ==
    /\ pc[h] = "msg_error_reply"
    /\ running = 0
    /\ Reply(h, Msg("error_processing", << >>, << >>), "done")
    /\ Return(h)
    /\ UNCHANGED <<user_data, now, disk, ev, log, running, sweep_vars, last_put>>

---------------------------------------------------------------------------
(* cleanup_old_data, in its own thread *)

handler_vars == <<pc, ev, loc, sent, log, outcome, running>>

\* line 193 and the start of the iteration over user_data.items()
SweepBegin ==
    /\ spc = "begin"
    /\ sw' = [current_time |-> now, used |-> Len(user_data), pos |-> 0,
              expired_users |-> << >>]
    /\ spc' = "iter"
    /\ pass_start' = Some([user_data |-> user_data, now |-> now])
    /\ UNCHANGED <<user_data, now, disk, handler_vars, wake, last_put>>

\* one step of the list comprehension of lines 194-197: the dict iterator raises
\* RuntimeError when the dict's size has changed, else yields the next item or ends
SweepNext ==
    /\ spc = "iter"
    /\ IF Len(user_data) # sw.used
       THEN spc' = "except" /\ sw' = [NoSweepLocals EXCEPT !.current_time = sw.current_time]
       ELSE IF sw.pos < Len(user_data)
       THEN LET item == user_data[sw.pos + 1]
            IN  /\ sw' = [sw EXCEPT !.pos = @ + 1,
                                    !.expired_users =
                                        IF IsExpired(sw.current_time, item.val)
                                        THEN Append(@, item.key) ELSE @]
                /\ UNCHANGED spc
       ELSE spc' = "pop" /\ sw' = [sw EXCEPT !.used = 0, !.pos = 0]
    /\ UNCHANGED <<user_data, now, disk, handler_vars, wake, last_put, pass_start>>

\* lines 198-199: user_data.pop(user_id, None) for the next expired user
SweepPop ==
    /\ spc = "pop"
    /\ sw.expired_users # << >>
    /\ user_data' = DictPop(user_data, Head(sw.expired_users))
    /\ last_put' = [last_put EXCEPT ![Head(sw.expired_users)] = None]
    /\ sw' = [sw EXCEPT !.expired_users = Tail(@)]
    /\ UNCHANGED <<now, disk, handler_vars, spc, wake, pass_start>>

\* line 200: time.sleep(3600) begins
SweepSleep ==
    /\ spc = "pop"
    /\ sw.expired_users = << >>
    /\ wake' = now + SLEEP_SECONDS
    /\ spc' = "sleeping"
    /\ sw' = NoSweepLocals
    /\ pass_start' = None
    /\ UNCHANGED <<user_data, now, disk, handler_vars, last_put>>

\* time.sleep returns, the while loop goes round
SweepWake ==
    /\ spc = "sleeping"
    /\ now >= wake
    /\ spc' = "begin"
    /\ wake' = 0
    /\ UNCHANGED <<user_data, now, disk, handler_vars, sw, last_put, pass_start>>

\* lines 201-202: the error is logged, the while loop goes round
SweepExcept ==
    /\ spc = "except"
    /\ spc' = "begin"
    /\ pass_start' = None
    /\ UNCHANGED <<user_data, now, disk, handler_vars, sw, wake, last_put>>

\* the clock advances
Tick ==
    /\ now + TickStep <= MaxTime
    /\ now' = now + TickStep
    /\ pass_start' = None
    /\ UNCHANGED <<user_data, disk, handler_vars, spc, sw, wake, last_put>>

---------------------------------------------------------------------------

HandlerStep(h) ==
    \/ StartReply(h)
    \/ BtnAnswer(h)
    \/ BtnEnterReply(h)
    \/ BtnExpiredReply(h)
    \/ BtnRead(h)
    \/ BtnNotice(h)
    \/ \E o \in Downloads : DlRun(h, o)
    \/ DlCompleteReply(h)
    \/ DlUpload(h)
    \/ DlDoneReply(h)
    \/ DlFailReply(h)
    \/ \E info \in Infos(ev[h].data) : MsgBegin(h, info)
    \/ MsgStore(h)
    \/ MsgInvalidReply(h)
    \/ MsgNoFormatsReply(h)
    \/ MsgMenuReply(h)

SweepStep ==
    \/ SweepBegin
    \/ SweepNext
    \/ SweepPop
    \/ SweepSleep
    \/ SweepWake
    \/ SweepExcept

Next ==
    \/ \E h \in Handlers : \E e \in Updates : Receive(h, e)
    \/ \E h \in Handlers : HandlerStep(h)
    \/ SweepStep
    \/ Tick

Spec == Init /\ [][Next]_vars

---------------------------------------------------------------------------
(* The same program when calls of the chat transport can raise *)

\* an awaited call raises outside any try: start, lines 55, 59, 67 and 70
RaiseUnguarded(h) ==
    /\ pc[h] \in {"start_reply", "btn_answer", "btn_enter_reply", "btn_expired_reply",
                  "btn_notice"}
    /\ running = 0
    /\ Escape(h, "TransportError")
    /\ UNCHANGED <<user_data, now, disk, ev, sent, log, running, sweep_vars, last_put>>

\* a reply raises inside the try of handle_message: lines 102-103
RaiseInMsgTry(h) ==
    /\ pc[h] \in {"msg_invalid_reply", "msg_noformats_reply", "msg_menu_reply"}
    /\ running = 0
    /\ log' = [log EXCEPT ![h] = @ \cup {"Error processing URL"}]
    /\ pc' = [pc EXCEPT ![h] = "msg_error_reply"]
    /\ UNCHANGED <<user_data, now, disk, ev, loc, sent, outcome, running, sweep_vars,
                   last_put>>

\* the reply of line 104 raises, inside the except block
RaiseInMsgExcept(h) ==
    /\ pc[h] = "msg_error_reply"
    /\ running = 0
    /\ Escape(h, "TransportError")
    /\ UNCHANGED <<user_data, now, disk, ev, sent, log, running, sweep_vars, last_put>>

\* a reply or the upload raises inside the try of download_video: lines 182-183
RaiseInDlTry(h) ==
    /\ pc[h] \in {"dl_complete_reply", "dl_upload", "dl_done_reply"}
    /\ running = 0
    /\ DlExcept(h, <<"TransportError">>, loc[h].file_path[1])
    /\ UNCHANGED <<user_data, now, disk, ev, sent, outcome, running, sweep_vars,
                   last_put>>

\* the reply of line 184 raises, inside the except block: the finally block runs
\* and the exception leaves download_video and button_handler
RaiseInDlExcept(h) ==
    /\ pc[h] = "dl_fail_reply"
    /\ running = 0
    /\ disk' = os_remove_if_exists(disk, loc[h].file_path[1])
    /\ Escape(h, "TransportError")
    /\ UNCHANGED <<user_data, now, ev, sent, log, running, sweep_vars, last_put>>

TransportRaises(h) ==
    \/ RaiseUnguarded(h)
    \/ RaiseInMsgTry(h)
    \/ RaiseInMsgExcept(h)
    \/ RaiseInDlTry(h)
    \/ RaiseInDlExcept(h)
    \/ MsgErrorReply(h)

NextFault ==
    \/ Next
    \/ \E h \in Handlers : TransportRaises(h)

SpecFault == Init /\ [][NextFault]_vars

---------------------------------------------------------------------------
(* The store under link submissions and the cleanup thread, when the thread,
   started as a daemon thread by main, is never starved: a step of the thread
   that stays possible is eventually taken. Nothing is assumed of the clock or of
   how long a step or a sleep takes. Users submit one valid and one invalid link;
   presses and downloads, which do not write the store, are left to the other
   specifications. *)

TextUpdates == {e \in Updates : e.kind = "text" /\ e.data \in {ShortLink, OtherLink}}

SubmissionStep(h) ==
    \/ \E info \in Infos(ev[h].data) : MsgBegin(h, info)
    \/ MsgStore(h)
    \/ MsgInvalidReply(h)
    \/ MsgNoFormatsReply(h)
    \/ MsgMenuReply(h)

NextLive ==
    \/ \E h \in Handlers : \E e \in TextUpdates : Receive(h, e)
    \/ \E h \in Handlers : SubmissionStep(h)
    \/ SweepStep
    \/ Tick

SpecLive == Init /\ [][NextLive]_vars /\ WF_vars(SweepStep)

---------------------------------------------------------------------------
(* handle_message on every text of up to MaxUrlLen pieces, for a user who holds
   an entry from an earlier submission, while the resolver finds nothing *)

MaxUrlLen == 3

UrlTokens == {"youtu.be", "youtube.com", "/", "?", "&", "a"}

UrlInputs == UNION {[1..k -> UrlTokens] : k \in 0..MaxUrlLen}

UrlUpdates == [kind : {"text"}, chat_id : {1}, data : UrlInputs]

FailedInfos == {info \in Infos(<< >>) : NotFormats(get_video_qualities(info))}

EarlierEntry ==
    [url |-> normalize_youtube_url(ShortLink), formats |-> QualitiesOf(FullFormats),
     timestamp |-> 0]

InitUrl ==
    /\ user_data = <<[key |-> 1, val |-> EarlierEntry]>>
    /\ now = 0
    /\ disk = << >>
    /\ pc = [h \in Handlers |-> "msg_begin"]
    /\ ev \in [Handlers -> UrlUpdates]
    /\ loc = [h \in Handlers |-> NoLocals]
    /\ sent = [h \in Handlers |-> << >>]
    /\ log = [h \in Handlers |-> {}]
    /\ outcome = [h \in Handlers |-> "none"]
    /\ running = 0
    /\ spc = "begin"
    /\ sw = NoSweepLocals
    /\ wake = 0
    /\ last_put = [u \in Users |-> IF u = 1 THEN Some(EarlierEntry) ELSE None]
    /\ pass_start = None

NextUrl ==
    \/ \E h \in Handlers : \E e \in UrlUpdates : Receive(h, e)
    \/ \E h \in Handlers : \E info \in FailedInfos : MsgBegin(h, info)
    \/ \E h \in Handlers : MsgStore(h)
    \/ \E h \in Handlers : MsgInvalidReply(h)
    \/ \E h \in Handlers : MsgNoFormatsReply(h)

SpecUrl == InitUrl /\ [][NextUrl]_vars

---------------------------------------------------------------------------
(* handle_message on a valid link, for every list of up to MaxFormats formats
   the resolver can report *)

MaxFormats == 5

FormatChoices ==
    { Fmt(Some(144), Some("avc1"), "160"), Fmt(Some(360), Some("avc1"), "134"),
      Fmt(Some(720), Some("vp9"), "247"), Fmt(Some(1080), Some("avc1"), "137"),
      Fmt(Some(2160), Some("vp9"), "313"), Fmt(Some(480), Some("none"), "599") }

MenuInfos ==
    {[raises |-> FALSE, formats |-> fs] :
        fs \in UNION {[1..k -> FormatChoices] : k \in 0..MaxFormats}}

InitMenu ==
    /\ user_data = << >>
    /\ now = 0
    /\ disk = << >>
    /\ pc = [h \in Handlers |-> "msg_begin"]
    /\ ev = [h \in Handlers |-> [kind |-> "text", chat_id |-> 1, data |-> ShortLink]]
    /\ loc = [h \in Handlers |-> NoLocals]
    /\ sent = [h \in Handlers |-> << >>]
    /\ log = [h \in Handlers |-> {}]
    /\ outcome = [h \in Handlers |-> "none"]
    /\ running = 0
    /\ spc = "begin"
    /\ sw = NoSweepLocals
    /\ wake = 0
    /\ last_put = [u \in Users |-> None]
    /\ pass_start = None

NextMenu ==
    \/ \E h \in Handlers : \E info \in MenuInfos : MsgBegin(h, info)
    \/ \E h \in Handlers : MsgStore(h)
    \/ \E h \in Handlers : MsgNoFormatsReply(h)
    \/ \E h \in Handlers : MsgMenuReply(h)

SpecMenu == InitMenu /\ [][NextMenu]_vars

---------------------------------------------------------------------------
(* Properties *)

IsQualityPress(h) == ev[h].kind = "callback" /\ StartsWith(ev[h].data, QualityPrefix)

\* the entry the store holds for user u, None without one
EntryOf(d, u) == IF DictHas(d, u) THEN Some(DictGet(d, u)) ELSE None

SessionExpiredMsg == Msg("session_expired", << >>, << >>)

\* C1: a quality press of a user whose entry was stored at time T uses the entry
\* when it arrives before T + CACHE_EXPIRY and gets the session-expired branch
\* (no download) when it arrives at or after T + CACHE_EXPIRY, swept or not.
C1_EntryExpiresAfterTtl ==
    [][\A h \in Handlers :
          (/\ pc[h] = "btn_answer"
           /\ pc'[h] # pc[h]
           /\ IsQualityPress(h)
           /\ DictHas(user_data, ev[h].chat_id))
          => IF now < DictGet(user_data, ev[h].chat_id).timestamp + CACHE_EXPIRY
             THEN pc'[h] = "btn_read"
             ELSE pc'[h] = "btn_expired_reply"]_vars

DlPositions == {"dl_run", "dl_complete_reply", "dl_upload", "dl_done_reply", "dl_fail_reply"}

\* C2: whenever download_video ends, on any of its exit paths, its artifact file
\* is not on disk afterwards; when the file was not there the cleanup changes
\* nothing and raises nothing of its own.
C2_ArtifactRemovedOnEveryExit ==
    [][\A h \in Handlers :
          (pc[h] \in DlPositions /\ pc'[h] = "done")
          => /\ loc[h].file_path # None
             /\ loc[h].file_path[1] \notin DOMAIN disk'
             /\ \A q \in DOMAIN disk' : q \in DOMAIN disk /\ disk'[q] = disk[q]
             /\ loc[h].file_path[1] \notin DOMAIN disk
                    => disk' = disk /\ outcome'[h] \in {"returned", "TransportError"}]_vars

\* the download ended after the artifact was on disk and the upload and the
\* failure message both failed, and no file is left
C2_Witness ==
    \E h \in Handlers :
        /\ pc[h] = "done"
        /\ outcome[h] = "TransportError"
        /\ Len(sent[h]) = 2
        /\ sent[h][2].text = "download_complete"
        /\ disk = << >>

\* the items of the dict d that are at most CACHE_EXPIRY old at time t
WithinTtl(d, t) == SelectSeq(d, LAMBDA e : ~(t - e.val.timestamp > CACHE_EXPIRY))

\* C3: a cleanup pass during which no put happened and the clock did not move
\* leaves exactly the entries that were at most CACHE_EXPIRY old when it began,
\* each unchanged, and removes all others.
C3_SweepRemovesAllAndOnlyExpired ==
    [][(spc = "pop" /\ spc' = "sleeping" /\ pass_start # None)
          => user_data' = WithinTtl(pass_start[1].user_data, pass_start[1].now)]_vars

\* an uninterrupted pass has removed one entry and kept the other
C3_Witness ==
    /\ spc = "pop"
    /\ sw.expired_users = << >>
    /\ pass_start # None
    /\ Len(pass_start[1].user_data) = 2
    /\ Len(user_data) = 1

\* C4: interleaved with a put, a cleanup pass never removes an entry that is
\* within CACHE_EXPIRY (so none written after it collected the expired keys),
\* and never fails because the dict changed while it iterated.
C4_SweepSafeWithPut ==
    [][/\ (spc = "pop" /\ spc' = "pop" /\ sw' # sw)
            => \A i \in 1..Len(user_data) :
                   user_data[i].key = Head(sw.expired_users)
                       => now - user_data[i].val.timestamp > CACHE_EXPIRY
       /\ ~(spc = "iter" /\ spc' = "except")]_vars

\* C5: a quality press ends with the download invoked or with the session-expired
\* response, never with an exception leaving the handler.
C5_PressNeverFaults ==
    \A h \in Handlers :
        (pc[h] = "done" /\ IsQualityPress(h))
        => /\ outcome[h] = "returned"
           /\ \/ sent[h] = <<SessionExpiredMsg>>
              \/ Len(sent[h]) >= 1 /\ sent[h][1].text = "downloading"

\* C6: a quality press of a user without an entry takes the session-expired
\* branch, and that branch sends the session-expired response and returns; neither
\* step invokes a download, creates a file or changes the store.
C6_PressWithoutEntry ==
    [][\A h \in Handlers :
          /\ (/\ pc[h] = "btn_answer"
              /\ pc'[h] # pc[h]
              /\ IsQualityPress(h)
              /\ \A i \in 1..Len(user_data) : user_data[i].key # ev[h].chat_id)
             => /\ pc'[h] = "btn_expired_reply"
                /\ user_data' = user_data
                /\ disk' = disk
          /\ (pc[h] = "btn_expired_reply" /\ pc'[h] # pc[h])
             => /\ pc'[h] = "done"
                /\ outcome'[h] = "returned"
                /\ sent'[h] = <<SessionExpiredMsg>>
                /\ user_data' = user_data
                /\ disk' = disk]_vars

\* a press of a user whose entry was swept has ended with the session-expired
\* response
C6_Witness ==
    \E h \in Handlers :
        /\ pc[h] = "done"
        /\ IsQualityPress(h)
        /\ sent[h] = <<SessionExpiredMsg>>
        /\ outcome[h] = "returned"
        /\ ~DictHas(user_data, ev[h].chat_id)
        /\ disk = << >>
        /\ now > CACHE_EXPIRY

FailureTexts == {"download_failed", "error_processing", "no_formats", "invalid_url"}

\* C7: no handler ends with an exception leaving it; after a resolver or
\* transport failure the error is logged and the last message sent to the user
\* is a failure message.
C7_NoErrorEscapes ==
    \A h \in Handlers :
        pc[h] = "done"
        => /\ outcome[h] = "returned"
           /\ log[h] # {} => /\ sent[h] # << >>
                             /\ Last(sent[h]).text \in FailureTexts

\* C8: every entry of the store is keyed by a user, is what that user's latest
\* successful submission stored (url, formats and timestamp, nothing else and
\* nothing older), has a url with a recognized domain and a non-empty formats
\* mapping.
C8_EntriesComeFromSuccessfulDiscovery ==
    \A i \in 1..Len(user_data) :
        LET u == user_data[i].key
            e == user_data[i].val
        IN  /\ u \in Users
            /\ last_put[u] = Some(e)
            /\ Contains(e.url, "youtube.com") \/ Contains(e.url, "youtu.be")
            /\ e.formats # << >>
            /\ e.timestamp <= now

\* the first user's entry has been replaced by a later submission of another link
C8_Witness ==
    /\ Len(user_data) = 2
    /\ user_data[1].val.timestamp > user_data[2].val.timestamp
    /\ user_data[1].val.url # user_data[2].val.url
    /\ \E h \in Handlers : pc[h] = "msg_menu_reply" /\ ev[h].chat_id = user_data[1].key

\* C9: the store holds at most one entry per user, and a quality press reads
\* exactly what the user's most recent successful submission stored.
C9_LastSubmissionWins ==
    /\ [](\A i, j \in 1..Len(user_data) : user_data[i].key = user_data[j].key => i = j)
    /\ [][\A h \in Handlers :
             (pc[h] = "btn_read" /\ pc'[h] = "btn_notice")
             => /\ last_put[ev[h].chat_id] # None
                /\ loc'[h].video_info = last_put[ev[h].chat_id]]_vars

\* a press has read the entry of a second submission of its user
C9_Witness ==
    \E h \in Handlers :
        /\ pc[h] = "btn_notice"
        /\ Len(user_data) = 2
        /\ user_data[1].key = ev[h].chat_id
        /\ user_data[1].val.timestamp > user_data[2].val.timestamp
        /\ loc[h].video_info = Some(user_data[1].val)

\* C10: no step of a handler working for user A creates, changes or removes the
\* entry of another user B.
C10_UsersIsolated ==
    [][\A h \in Handlers :
          pc'[h] # pc[h]
          => \A b \in Users \ {ev'[h].chat_id} :
                 EntryOf(user_data', b) = EntryOf(user_data, b)]_vars

\* user A has replaced their entry while user B holds one
C10_Witness ==
    \E h \in Handlers :
        /\ pc[h] = "msg_menu_reply"
        /\ Len(user_data) = 2
        /\ user_data[1].key = ev[h].chat_id
        /\ user_data[1].val.timestamp > user_data[2].val.timestamp

OutcomeTexts == {"done", "download_failed"}

\* C11: when a download has ended, by success or by failure, the last message
\* sent to the user reports the outcome and carries the "download another"
\* button, whose payload is enter_link.
C11_OutcomeReportOffersAnother ==
    \A h \in Handlers :
        (/\ pc[h] = "done"
         /\ outcome[h] = "returned"
         /\ IsQualityPress(h)
         /\ sent[h] # << >>
         /\ sent[h][1].text = "downloading")
        => /\ Last(sent[h]).text \in OutcomeTexts
           /\ Last(sent[h]).buttons = <<EnterLink>>

\* C12: a failure inside a cleanup pass is swallowed and the loop keeps its
\* schedule: the thread stays in the loop, and it is back at the top of the loop,
\* where the next pass starts, no earlier than SLEEP_SECONDS after the failed
\* pass began.
C12_FailedPassKeepsSchedule ==
    [][/\ spc' \in {"begin", "iter", "pop", "sleeping", "except"}
       /\ (spc = "except" /\ spc' = "begin")
              => now >= sw.current_time + SLEEP_SECONDS]_vars

Times == {k * TickStep : k \in 0..MaxTicks}

\* user u holds the entry created at time t
HoldsEntryOf(u, t) == DictHas(user_data, u) /\ DictGet(user_data, u).timestamp = t

InFlight == {h \in Handlers : pc[h] \in DlPositions /\ loc[h].file_path # None}

C15_NormalizeIdempotent ==
    \A h \in Handlers :
        pc[h] \in {"msg_store", "msg_invalid_reply"}
        => normalize_youtube_url(loc[h].url) = loc[h].url

NoRecognizedDomain(text) == ~Contains(text, "youtube.com") /\ ~Contains(text, "youtu.be")

InvalidUrlMsg == Msg("invalid_url", << >>, << >>)

\* C16: a text without "youtube.com" and without "youtu.be" is rejected:
\* handle_message goes to the invalid-link reply without calling the resolver,
\* sends that message alone and returns, and the store stays as it was.
C16_UrlWithoutDomainRejected ==
    [][\A h \in Handlers :
          /\ (/\ pc[h] = "msg_begin"
              /\ pc'[h] # pc[h]
              /\ NoRecognizedDomain(ev[h].data))
             => /\ pc'[h] = "msg_invalid_reply"
                /\ loc'[h].formats = None
                /\ log' = log
                /\ user_data' = user_data
          /\ (pc[h] = "msg_invalid_reply" /\ pc'[h] # pc[h])
             => /\ pc'[h] = "done"
                /\ outcome'[h] = "returned"
                /\ sent'[h] = <<InvalidUrlMsg>>
                /\ user_data' = user_data]_vars

\* a text with separators and no domain has been answered with the invalid-link
\* message and the user's earlier entry is still the only one
C16_Witness ==
    \E h \in Handlers :
        /\ pc[h] = "done"
        /\ sent[h] = <<InvalidUrlMsg>>
        /\ NoRecognizedDomain(ev[h].data)
        /\ Contains(ev[h].data, "&")
        /\ user_data = <<[key |-> ev[h].chat_id, val |-> EarlierEntry]>>

\* the heights that are the keys of the formats mapping d
HeightsOf(d) == {py_int(d[i].key) : i \in 1..Len(d)}

\* the i-th largest member of the set S of numbers
NthLargest(S, i) == CHOOSE x \in S : Cardinality({y \in S : y > x}) = i - 1

\* C17: the quality menu sent after a successful discovery has min(TOP_N, number
\* of distinct discovered heights) buttons, the i-th being quality_<the i-th
\* largest discovered height>: the largest heights, in descending numeric order.
C17_MenuIsTopHeightsDescending ==
    [][\A h \in Handlers :
          (pc[h] = "msg_menu_reply" /\ pc'[h] # pc[h])
          => LET heights == HeightsOf(loc[h].formats[1])
                 menu    == Last(sent'[h])
                 n       == IF Cardinality(heights) < 4 THEN Cardinality(heights) ELSE 4
             IN  /\ menu.text = "select_quality"
                 /\ Len(menu.buttons) = n
                 /\ \A i \in 1..n :
                        menu.buttons[i] = QualityPrefix \o py_str(NthLargest(heights, i))]_vars

\* five heights were discovered and the menu offers the four largest
C17_Witness ==
    \E h \in Handlers :
        /\ pc[h] = "done"
        /\ Len(user_data) = 1
        /\ Len(user_data[1].val.formats) = 5
        /\ Last(sent[h]).buttons =
               << QualityPrefix \o py_str(2160), QualityPrefix \o py_str(1080),
                  QualityPrefix \o py_str(720), QualityPrefix \o py_str(360) >>

PressPositions == {"btn_answer", "btn_read", "btn_notice", "btn_expired_reply"} \cup DlPositions

\* C18: no step of a quality press and of its download, succeeded or failed,
\* writes the store: the user's entry is left with its url, formats and
\* timestamp, for a further press to read.
C18_DownloadLeavesStore ==
    [][\A h \in Handlers :
          (pc[h] \in PressPositions /\ IsQualityPress(h) /\ pc'[h] # pc[h])
          => user_data' = user_data]_vars

\* a download has succeeded and the user's entry is still the one their last
\* submission stored
C18_Witness ==
    \E h \in Handlers :
        /\ pc[h] = "done"
        /\ IsQualityPress(h)
        /\ sent[h] # << >>
        /\ Last(sent[h]).text = "done"
        /\ DictHas(user_data, ev[h].chat_id)
        /\ last_put[ev[h].chat_id] = Some(DictGet(user_data, ev[h].chat_id))

\* C19: a link submission that fails, by an invalid url, a resolver error or no
\* usable formats, writes nothing: its steps up to the check of the formats and
\* its failure replies leave the store, and so an earlier entry, as they were.
C19_FailedSubmissionLeavesStore ==
    [][\A h \in Handlers :
          /\ (pc[h] = "msg_begin" /\ pc'[h] # pc[h])
             => user_data' = user_data
          /\ (/\ pc[h] = "msg_store"
              /\ pc'[h] # pc[h]
              /\ (loc[h].formats = None \/ loc[h].formats[1] = << >>))
             => /\ pc'[h] = "msg_noformats_reply"
                /\ user_data' = user_data
          /\ (/\ pc[h] \in {"msg_invalid_reply", "msg_noformats_reply", "msg_error_reply"}
              /\ pc'[h] # pc[h])
             => user_data' = user_data]_vars

\* a submission of another link has ended with the no-formats message and the
\* user still holds the entry of their earlier link
C19_Witness ==
    \E h \in Handlers :
        /\ pc[h] = "done"
        /\ ev[h].kind = "text"
        /\ sent[h] # << >>
        /\ Last(sent[h]).text = "no_formats"
        /\ DictHas(user_data, ev[h].chat_id)
        /\ DictGet(user_data, ev[h].chat_id).url
               # normalize_youtube_url(Strip(ev[h].data))
        /\ last_put[ev[h].chat_id] = Some(DictGet(user_data, ev[h].chat_id))

\* C20: the download of a press of quality_<N> is entered with the resolution N
\* of the payload, whether or not N is a key of the entry's formats, and with
\* the entry the store held for the user when the press read it.
C20_DownloadUsesPayloadAndStoredUrl ==
    /\ [](\A h \in Handlers :
             pc[h] = "dl_run"
             => /\ IsQualityPress(h)
                /\ QualityPrefix \o loc[h].quality = ev[h].data
                /\ loc[h].video_info # None
                /\ Last(sent[h]) = Msg("downloading", loc[h].quality, << >>))
    /\ [][\A h \in Handlers :
             (pc[h] = "btn_read" /\ pc'[h] = "btn_notice")
             => loc'[h].video_info = EntryOf(user_data, ev[h].chat_id)]_vars

\* a download is entered with resolution 720 for an entry whose formats have no
\* key 720
C20_Witness ==
    \E h \in Handlers :
        /\ pc[h] = "dl_run"
        /\ loc[h].quality = py_str(720)
        /\ ~DictHas(loc[h].video_info[1].formats, py_str(720))
        /\ loc[h].video_info = EntryOf(user_data, ev[h].chat_id)

====
